---- MODULE Spec2Model ----
(***************************************************************************)
(* A model of pytorch_lightning/metrics/converters.py: the leaf            *)
(* conversions, the input/output conversion decorators, and the DDP        *)
(* synchronisation helpers sync_ddp_if_available and                       *)
(* gather_all_tensors_if_available running on a group of peer processes.   *)
(*                                                                         *)
(* A tensor is a record [kind, id, val, dims]: id = CallerOwned names an   *)
(* object the caller holds, id = Fresh an object the library allocated;    *)
(* val is an exact rational [n, d] standing for the (float) element value. *)
(***************************************************************************)
EXTENDS Integers, Sequences, FiniteSets, TLC

\* ---------------------------------------------------------------- bounds
NumPeers == 2
MaxCalls == 4
MaxVal == 1

Peers == 1..NumPeers
Vals == 0..MaxVal

\* ------------------------------------------------------------- rationals
RECURSIVE GCD(_, _)
GCD(a, b) == IF b = 0 THEN a ELSE GCD(b, a % b)

Rat(n, d) == LET g == IF n = 0 THEN d ELSE GCD(n, d)
             IN  [n |-> n \div g, d |-> d \div g]

RatAdd(a, b) == Rat(a.n * b.d + b.n * a.d, a.d * b.d)

\* result / k  (true division of a float tensor by an int)
RatDivInt(a, k) == Rat(a.n, a.d * k)

Zero == Rat(0, 1)

\* ---------------------------------------------------------------- values
Tensor(id, val, dims) == [kind |-> "Tensor", id |-> id, val |-> val, dims |-> dims]
NoValue == [kind |-> "None"]

\* a numbers.Number, a numpy.ndarray (opaque: str/object element dtype), a str
Scalar(val) == [kind |-> "Scalar", val |-> val]
Array(id, val, dims, opaque) ==
    [kind |-> "Array", id |-> id, val |-> val, dims |-> dims, opaque |-> opaque]
Str == [kind |-> "Str"]

\* containers: list, tuple, dict (keys in insertion order), set
List(items) == [kind |-> "List", items |-> items]
Tuple(items) == [kind |-> "Tuple", items |-> items]
Map(keys, vals) == [kind |-> "Map", keys |-> keys, vals |-> vals]
Set(elems) == [kind |-> "Set", elems |-> elems]

\* a raised TypeError, as the outcome of an expression
TypeError == [kind |-> "TypeError"]

\* object identities: a tensor the caller holds, and one the library allocates
CallerOwned == "caller"
Fresh == "fresh"

\* -------------------------------------------------------- process groups
\* torch.distributed.group.WORLD: every peer, rank i is peer i
WorldRanks == [i \in 1..NumPeers |-> i]
\* a sub-group handle a caller may pass: the peers 2..NumPeers, rank i is peer i+1
SubRanks == [i \in 1..(NumPeers - 1) |-> i + 1]

\* lines 263-264 / 299-300: group None means the world group
ResolveGroup(group) == IF group = "None" THEN "WORLD" ELSE group

Ranks(handle) == IF handle = "WORLD" THEN WorldRanks ELSE SubRanks

Members(handle) == {Ranks(handle)[i] : i \in 1..Len(Ranks(handle))}

\* torch.distributed.get_world_size(group)
WorldSizeOfWorld(handle) == Len(WorldRanks)
GetWorldSize(handle) == Len(Ranks(handle))

\* lines 266-270: the reduce op handed to all_reduce and the divide flag
ReduceOpAlwaysDivide(reduce_op) == [op |-> "SUM", divide |-> TRUE]
ResolveReduceOp(reduce_op) ==
    IF reduce_op = "None" THEN [op |-> "SUM", divide |-> FALSE]
    ELSE IF reduce_op \in {"avg", "mean"} THEN [op |-> "SUM", divide |-> TRUE]
    ELSE [op |-> reduce_op, divide |-> FALSE]

VARIABLES
    available,   \* torch.distributed.is_available(): fixed for the build
    rt,          \* per peer: "uninit" | "init" | "destroyed" process group
    site,        \* the call site every peer runs: [fn, group, reduce_op, f, args]
    pc,          \* per peer: position in the current call
    ncalls,      \* calls started so far by all peers together
    cur,         \* per peer: the value whose tensor leaves are being synced
    outs,        \* per peer: results of the leaves synced so far
    frame,       \* per peer: locals of the running sync/gather leaf call
    barIn,       \* per peer: barriers entered on the group so far
    contrib,     \* the communicator: values posted to each collective round
    last,        \* per peer: record of the latest leaf call (history)
    firstProbe,  \* per peer: outcome of the first availability probe (history)
    call         \* per peer: record of the latest decorated call (history)

vars == <<available, rt, site, pc, ncalls, cur, outs, frame, barIn, contrib,
          last, firstProbe, call>>

\* --------------------------------------------------------- communicator
Posted(r, p) == \E c \in contrib : c.round = r /\ c.peer = p
PostedVal(r, p) == (CHOOSE c \in contrib : c.round = r /\ c.peer = p).val

RECURSIVE SumRanks(_, _, _)
SumRanks(ranks, r, i) ==
    IF i = 0 THEN Zero ELSE RatAdd(SumRanks(ranks, r, i - 1), PostedVal(r, ranks[i]))

\* torch.distributed.all_reduce(result, op=SUM, group): the value every
\* member's tensor holds afterwards
AllReduceValue(handle, r) == SumRanks(Ranks(handle), r, Len(Ranks(handle)))

\* torch.distributed.barrier(group) returns once every member has entered it
BarrierNeverWaits(handle, r) == TRUE
BarrierOpen(handle, r) == \A m \in Members(handle) : barIn[m] >= r

CollectiveComplete(handle, r) == \A m \in Members(handle) : Posted(r, m)

\* the communicator frees a round's buffers when its last member picks up the
\* result
Release(p, handle, r) ==
    IF \A m \in Members(handle) \ {p} :
          ~(pc[m] \in {"all_reduce", "all_gather"} /\ frame[m].round = r)
    THEN {c \in contrib : c.round # r}
    ELSE contrib

\* lines 260 / 298: torch.distributed.is_available() and is_initialized()
ProbeCached(p) ==
    IF firstProbe[p] = "none" THEN available /\ rt[p] = "init"
    ELSE firstProbe[p] = "Active"
ProbeAlwaysTrue(p) == TRUE
DistAvailableAndInitialized(p) == available /\ rt[p] = "init"


\* ------------------------------------------------- traversal of a result
RECURSIVE Concat(_, _)
Concat(seqs, i) == IF i = 0 THEN <<>> ELSE Concat(seqs, i - 1) \o seqs[i]

Children(data) ==
    IF data.kind = "Map" THEN data.vals
    ELSE IF data.kind \in {"List", "Tuple"} THEN data.items
    ELSE <<>>

\* the torch.Tensor leaves of a collection in the order apply_to_collection
\* visits them (sync_ddp, lines 330-332)
RECURSIVE TensorLeaves(_)
TensorLeaves(data) ==
    IF data.kind = "Tensor" THEN <<data>>
    ELSE LET ch == Children(data)
         IN  Concat([i \in 1..Len(ch) |-> TensorLeaves(ch[i])], Len(ch))

\* the collection rebuilt with its k-th tensor leaf replaced by new[off + k]
RECURSIVE ReplaceLeaves(_, _, _)
ReplaceLeaves(data, new, off) ==
    IF data.kind = "Tensor" THEN new[off + 1]
    ELSE LET ch == Children(data)
             before(i) == Len(Concat([j \in 1..Len(ch) |-> TensorLeaves(ch[j])], i - 1))
             mapped == [i \in 1..Len(ch) |-> ReplaceLeaves(ch[i], new, off + before(i))]
         IN  IF data.kind = "Map" THEN [data EXCEPT !.vals = mapped]
             ELSE IF data.kind \in {"List", "Tuple"} THEN [data EXCEPT !.items = mapped]
             ELSE data

\* --------------------------------------------------------------- records
NoFrame == [arg |-> NoValue, handle |-> "WORLD", divide |-> FALSE, round |-> 0,
            buf |-> <<>>]

NoLast == [fn |-> "none", probe |-> FALSE, active |-> FALSE, round |-> 0,
           barAtEntry |-> 0, local |-> Zero, arg |-> NoValue, ret |-> NoValue,
           done |-> FALSE]

NoCall == [status |-> "none", barAtStart |-> 0, upAtStart |-> FALSE,
           invoked |-> FALSE, seenArgs |-> NoValue, seenKwargs |-> NoValue,
           fret |-> NoValue, ret |-> NoValue]

\* the state of the runtime as the environment has it (history only)
RuntimeUp(p) == available /\ rt[p] = "init"

Probed(p, active) ==
    IF firstProbe[p] = "none"
    THEN [firstProbe EXCEPT ![p] = IF active THEN "Active" ELSE "Inactive"]
    ELSE firstProbe

\* ----------------------------------------------------------- environment
\* torch.distributed.init_process_group, run by the process between calls
InitProcessGroup(p) ==
    /\ available
    /\ pc[p] = "idle"
    /\ rt[p] = "uninit"
    /\ rt' = [rt EXCEPT ![p] = "init"]
    /\ UNCHANGED <<available, site, pc, ncalls, cur, outs, frame, barIn, contrib,
                   last, firstProbe, call>>

\* torch.distributed.destroy_process_group, run by the process between calls
DestroyProcessGroup(p) ==
    /\ pc[p] = "idle"
    /\ rt[p] = "init"
    /\ rt' = [rt EXCEPT ![p] = "destroyed"]
    /\ UNCHANGED <<available, site, pc, ncalls, cur, outs, frame, barIn, contrib,
                   last, firstProbe, call>>

\* ------------------------------------------------- sync_ddp_if_available
\* a caller passes its own tensor to sync_ddp_if_available (line 243)
CallSyncDdp(p, v) ==
    /\ site.fn = "sync_ddp_if_available"
    /\ pc[p] = "idle"
    /\ ncalls < MaxCalls
    /\ p \in Members(ResolveGroup(site.group))
    /\ ncalls' = ncalls + 1
    /\ cur' = [cur EXCEPT ![p] = Tensor(CallerOwned, Rat(v, 1), 0)]
    /\ outs' = [outs EXCEPT ![p] = <<>>]
    /\ call' = [call EXCEPT ![p] = [NoCall EXCEPT !.status = "running",
                                                  !.barAtStart = barIn[p]]]
    /\ pc' = [pc EXCEPT ![p] = "sync"]
    /\ UNCHANGED <<available, rt, site, frame, barIn, contrib, last, firstProbe>>

PendingLeaf(p) == Len(outs[p]) < Len(TensorLeaves(cur[p]))
NextLeaf(p) == TensorLeaves(cur[p])[Len(outs[p]) + 1]

\* lines 260-273: the probe succeeds, group and op are resolved, the barrier
\* is entered
SyncDdpActive(p) ==
    /\ pc[p] = "sync"
    /\ PendingLeaf(p)
    /\ DistAvailableAndInitialized(p)
    /\ LET handle == ResolveGroup(site.group)
           ro == ResolveReduceOp(site.reduce_op)
       IN  /\ frame' = [frame EXCEPT ![p] =
                          [arg |-> NextLeaf(p), handle |-> handle,
                           divide |-> ro.divide, round |-> barIn[p] + 1, buf |-> <<>>]]
           /\ last' = [last EXCEPT ![p] =
                          [fn |-> "sync_ddp_if_available", probe |-> RuntimeUp(p),
                           active |-> TRUE, round |-> barIn[p] + 1,
                           barAtEntry |-> barIn[p], local |-> NextLeaf(p).val,
                           arg |-> NextLeaf(p), ret |-> NoValue, done |-> FALSE]]
    /\ barIn' = [barIn EXCEPT ![p] = @ + 1]
    /\ firstProbe' = Probed(p, TRUE)
    /\ pc' = [pc EXCEPT ![p] = "barrier"]
    /\ UNCHANGED <<available, rt, site, ncalls, cur, outs, contrib, call>>

\* lines 260, 280: the probe fails and result is returned as it came
SyncDdpPassthrough(p) ==
    /\ pc[p] = "sync"
    /\ PendingLeaf(p)
    /\ ~DistAvailableAndInitialized(p)
    /\ outs' = [outs EXCEPT ![p] = Append(@, NextLeaf(p))]
    /\ last' = [last EXCEPT ![p] =
                   [fn |-> "sync_ddp_if_available", probe |-> RuntimeUp(p),
                    active |-> FALSE, round |-> 0,
                    barAtEntry |-> barIn[p], local |-> NextLeaf(p).val,
                    arg |-> NextLeaf(p), ret |-> NextLeaf(p), done |-> TRUE]]
    /\ firstProbe' = Probed(p, FALSE)
    /\ UNCHANGED <<available, rt, site, pc, ncalls, cur, frame, barIn, contrib, call>>

\* line 273 returns, line 274 starts: the tensor's value is posted to all_reduce
Barrier(p) ==
    /\ pc[p] = "barrier"
    /\ BarrierOpen(frame[p].handle, frame[p].round)
    /\ contrib' = contrib \cup
                  {[round |-> frame[p].round, peer |-> p, val |-> frame[p].arg.val]}
    /\ pc' = [pc EXCEPT ![p] = "all_reduce"]
    /\ UNCHANGED <<available, rt, site, ncalls, cur, outs, frame, barIn, last,
                   firstProbe, call>>

\* line 274: all_reduce writes the combined value into the tensor it was given
AllReduceOutOfPlace(arg, s) == arg
AllReduceInPlace(arg, s) == [arg EXCEPT !.val = s]

\* line 278: result / get_world_size(group) builds a new tensor
DivideByWorldSize(result, handle) ==
    Tensor(Fresh, RatDivInt(result.val, GetWorldSize(handle)), result.dims)

\* lines 274-280: all_reduce completes, the optional division, the return
AllReduce(p) ==
    /\ pc[p] = "all_reduce"
    /\ CollectiveComplete(frame[p].handle, frame[p].round)
    /\ LET s == AllReduceValue(frame[p].handle, frame[p].round)
           reduced == AllReduceInPlace(frame[p].arg, s)
           result == IF frame[p].divide
                     THEN DivideByWorldSize(reduced, frame[p].handle)
                     ELSE reduced
       IN  /\ outs' = [outs EXCEPT ![p] = Append(@, result)]
           /\ last' = [last EXCEPT ![p] =
                          [@ EXCEPT !.arg = reduced, !.ret = result, !.done = TRUE]]
    /\ contrib' = Release(p, frame[p].handle, frame[p].round)
    /\ frame' = [frame EXCEPT ![p] = NoFrame]
    /\ pc' = [pc EXCEPT ![p] = "sync"]
    /\ UNCHANGED <<available, rt, site, ncalls, cur, barIn, firstProbe, call>>

\* every tensor leaf has been handled: the (decorated) call returns
Return(p) ==
    /\ pc[p] = "sync"
    /\ ~PendingLeaf(p)
    /\ call' = [call EXCEPT ![p] =
                   [@ EXCEPT !.status = "returned",
                             !.ret = ReplaceLeaves(cur[p], outs[p], 0)]]
    /\ pc' = [pc EXCEPT ![p] = "idle"]
    /\ UNCHANGED <<available, rt, site, ncalls, cur, outs, frame, barIn, contrib,
                   last, firstProbe>>

\* --------------------------------------- gather_all_tensors_if_available
\* a caller passes its own tensor to gather_all_tensors_if_available (line 283)
CallGather(p, v) ==
    /\ site.fn = "gather_all_tensors_if_available"
    /\ pc[p] = "idle"
    /\ ncalls < MaxCalls
    /\ p \in Members(ResolveGroup(site.group))
    /\ ncalls' = ncalls + 1
    /\ cur' = [cur EXCEPT ![p] = Tensor(CallerOwned, Rat(v, 1), 0)]
    /\ outs' = [outs EXCEPT ![p] = <<>>]
    /\ call' = [call EXCEPT ![p] = [NoCall EXCEPT !.status = "running",
                                                  !.barAtStart = barIn[p]]]
    /\ pc' = [pc EXCEPT ![p] = "gather"]
    /\ UNCHANGED <<available, rt, site, frame, barIn, contrib, last, firstProbe>>

\* line 304: [torch.zeros_like(result) for _ in range(world_size)]
ZerosList(result, world_size) ==
    [i \in 1..world_size |-> Tensor(Fresh, Zero, result.dims)]

\* lines 298-307: the probe succeeds, the receive list is built, the barrier
\* is entered
GatherActive(p) ==
    /\ pc[p] = "gather"
    /\ DistAvailableAndInitialized(p)
    /\ LET handle == ResolveGroup(site.group)
           world_size == GetWorldSize(handle)
       IN  /\ frame' = [frame EXCEPT ![p] =
                          [arg |-> cur[p], handle |-> handle, divide |-> FALSE,
                           round |-> barIn[p] + 1,
                           buf |-> ZerosList(cur[p], world_size)]]
           /\ last' = [last EXCEPT ![p] =
                          [fn |-> "gather_all_tensors_if_available",
                           probe |-> RuntimeUp(p), active |-> TRUE,
                           round |-> barIn[p] + 1, barAtEntry |-> barIn[p],
                           local |-> cur[p].val, arg |-> cur[p], ret |-> NoValue,
                           done |-> FALSE]]
    /\ barIn' = [barIn EXCEPT ![p] = @ + 1]
    /\ firstProbe' = Probed(p, TRUE)
    /\ pc' = [pc EXCEPT ![p] = "gather_barrier"]
    /\ UNCHANGED <<available, rt, site, ncalls, cur, outs, contrib, call>>

\* lines 298, 312: the probe fails and result is returned as it came
GatherPassthrough(p) ==
    /\ pc[p] = "gather"
    /\ ~DistAvailableAndInitialized(p)
    /\ last' = [last EXCEPT ![p] =
                   [fn |-> "gather_all_tensors_if_available", probe |-> RuntimeUp(p),
                    active |-> FALSE, round |-> 0, barAtEntry |-> barIn[p],
                    local |-> cur[p].val, arg |-> cur[p], ret |-> cur[p],
                    done |-> TRUE]]
    /\ call' = [call EXCEPT ![p] = [@ EXCEPT !.status = "returned", !.ret = cur[p]]]
    /\ firstProbe' = Probed(p, FALSE)
    /\ pc' = [pc EXCEPT ![p] = "idle"]
    /\ UNCHANGED <<available, rt, site, ncalls, cur, outs, frame, barIn, contrib>>

\* line 307 returns, line 308 starts: the tensor's value is posted to all_gather
GatherBarrier(p) ==
    /\ pc[p] = "gather_barrier"
    /\ BarrierOpen(frame[p].handle, frame[p].round)
    /\ contrib' = contrib \cup
                  {[round |-> frame[p].round, peer |-> p, val |-> frame[p].arg.val]}
    /\ pc' = [pc EXCEPT ![p] = "all_gather"]
    /\ UNCHANGED <<available, rt, site, ncalls, cur, outs, frame, barIn, last,
                   firstProbe, call>>

\* torch.distributed.all_gather(tensor_list, tensor, group): tensor_list[i]
\* receives the tensor of the member with rank i
AllGatherReversed(buf, handle, r) ==
    [i \in 1..Len(buf) |->
        IF i <= Len(Ranks(handle))
        THEN [buf[i] EXCEPT !.val = PostedVal(r, Ranks(handle)[Len(Ranks(handle)) + 1 - i])]
        ELSE buf[i]]
AllGatherFill(buf, handle, r) ==
    [i \in 1..Len(buf) |->
        IF i <= Len(Ranks(handle))
        THEN [buf[i] EXCEPT !.val = PostedVal(r, Ranks(handle)[i])]
        ELSE buf[i]]

\* lines 308-312: all_gather completes and the filled list is returned
AllGather(p) ==
    /\ pc[p] = "all_gather"
    /\ CollectiveComplete(frame[p].handle, frame[p].round)
    /\ LET gathered == [kind |-> "List",
                        items |-> AllGatherFill(frame[p].buf, frame[p].handle,
                                                frame[p].round)]
       IN  /\ last' = [last EXCEPT ![p] = [@ EXCEPT !.ret = gathered, !.done = TRUE]]
           /\ call' = [call EXCEPT ![p] =
                          [@ EXCEPT !.status = "returned", !.ret = gathered]]
    /\ contrib' = Release(p, frame[p].handle, frame[p].round)
    /\ frame' = [frame EXCEPT ![p] = NoFrame]
    /\ pc' = [pc EXCEPT ![p] = "idle"]
    /\ UNCHANGED <<available, rt, site, ncalls, cur, outs, barIn, firstProbe>>

\* ------------------------------------------------------ leaf conversions
\* lines 101-109, with dtype=None and device=None as every decorator calls it
ConvertToTensorAnyArray(data) ==
    IF data.kind = "Scalar" THEN Tensor(Fresh, data.val, 1)
    ELSE IF data.kind = "Array" THEN Tensor(Fresh, data.val, data.dims)
    ELSE IF data.kind = "Tensor" THEN data
    ELSE TypeError
convert_to_tensor(data) ==
    IF data.kind = "Scalar" THEN Tensor(Fresh, data.val, 1)
    ELSE IF data.kind = "Array" /\ ~data.opaque THEN Tensor(Fresh, data.val, data.dims)
    ELSE IF data.kind = "Tensor" THEN data
    ELSE TypeError

\* lines 121-128
convert_to_numpy(data) ==
    IF data.kind = "Tensor" THEN Array(Fresh, data.val, data.dims, FALSE)
    ELSE IF data.kind = "Scalar" THEN Array(Fresh, data.val, 1, FALSE)
    ELSE IF data.kind = "Array" THEN data
    ELSE TypeError

ApplyLeaf(function, data) ==
    IF function = "convert_to_numpy" THEN convert_to_numpy(data)
    ELSE convert_to_tensor(data)

\* (torch.Tensor, np.ndarray, numbers.Number), lines 142, 189, 202
LeafTypes == {"Tensor", "Array", "Scalar"}

\* pytorch_lightning.utilities.apply_func.apply_to_collection; a TypeError
\* raised at a leaf ends the whole traversal
RECURSIVE apply_to_collection(_, _, _)
apply_to_collection(data, dtype, function) ==
    IF data.kind \in dtype THEN ApplyLeaf(function, data)
    ELSE IF data.kind = "Map" THEN
        LET vs == [i \in 1..Len(data.vals) |->
                      apply_to_collection(data.vals[i], dtype, function)]
        IN  IF \E i \in 1..Len(vs) : vs[i] = TypeError THEN TypeError
            ELSE [data EXCEPT !.vals = vs]
    ELSE IF data.kind \in {"List", "Tuple"} THEN
        LET xs == [i \in 1..Len(data.items) |->
                      apply_to_collection(data.items[i], dtype, function)]
        IN  IF \E i \in 1..Len(xs) : xs[i] = TypeError THEN TypeError
            ELSE [data EXCEPT !.items = xs]
    ELSE IF data.kind = "Set" THEN
        LET es == {apply_to_collection(e, dtype, function) : e \in data.elems}
        IN  IF TypeError \in es THEN TypeError ELSE [data EXCEPT !.elems = es]
    ELSE data

\* ------------------------------------------------------------ decorators
\* lines 141-142 and 188-189: the leaf function of the input stage
InputFunction(fn) ==
    IF fn = "numpy_metric" THEN "convert_to_numpy" ELSE "convert_to_tensor"

\* lines 155 and 202-203: the output stage of each conversion decorator
OutputStageTraversing(fn, result) ==
    apply_to_collection(result, LeafTypes, "convert_to_tensor")
OutputStageSkippingNumbers(fn, result) ==
    IF fn = "tensor_collection_metric"
    THEN apply_to_collection(result, {"Tensor", "Array"}, "convert_to_tensor")
    ELSE convert_to_tensor(result)
OutputStage(fn, result) ==
    IF fn = "tensor_collection_metric"
    THEN apply_to_collection(result, LeafTypes, "convert_to_tensor")
    ELSE convert_to_tensor(result)

\* the positional and keyword arguments a caller passes
Args(a) ==
    IF a = "plain" THEN Tuple(<<Scalar(Rat(1, 1)), Tensor(CallerOwned, Rat(1, 1), 0)>>)
    ELSE IF a = "nested" THEN
        Tuple(<<List(<<Array(CallerOwned, Rat(1, 1), 0, FALSE), Scalar(Rat(1, 1))>>)>>)
    ELSE IF a = "object_arg" THEN Tuple(<<Array(CallerOwned, Zero, 0, TRUE)>>)
    ELSE IF a = "object_kwarg" THEN Tuple(<<Scalar(Rat(1, 1))>>)
    ELSE Tuple(<<Str, Set({Scalar(Rat(1, 1))})>>)

Kwargs(a) ==
    IF a = "nested" THEN Map(<<"weights">>, <<Tensor(CallerOwned, Rat(1, 1), 0)>>)
    ELSE IF a = "object_kwarg" THEN Map(<<"labels">>, <<Array(CallerOwned, Zero, 0, TRUE)>>)
    ELSE Map(<<>>, <<>>)

ArgChoices == {"plain", "nested", "object_arg", "object_kwarg", "other"}

\* the decorated user function: what it returns for local data v
UserFn(f, args, kwargs, v) ==
    IF f = "ret_scalar" THEN Scalar(Rat(v, 1))
    ELSE IF f = "ret_tensor" THEN Tensor(CallerOwned, Rat(v, 1), 0)
    ELSE IF f = "ret_array" THEN Array(CallerOwned, Rat(v, 1), 0, FALSE)
    ELSE IF f = "ret_object_array" THEN Array(CallerOwned, Zero, 0, TRUE)
    ELSE IF f = "ret_str" THEN Str
    ELSE IF f = "ret_dict" THEN
        Map(<<"precision", "recall">>, <<Scalar(Rat(v, 1)), Scalar(Rat(MaxVal - v, 1))>>)
    ELSE IF f = "ret_list" THEN
        List(<<Tensor(CallerOwned, Rat(v, 1), 0), Array(CallerOwned, Rat(v, 1), 0, FALSE)>>)
    ELSE args.items[1]

UserFns == {"ret_scalar", "ret_tensor", "ret_array", "ret_object_array", "ret_str",
            "ret_dict", "ret_list", "ret_first_arg"}

\* numpy_metric / tensor_metric / tensor_collection_metric (lines 337-402)
\* called once: input stage (lines 56-57), the user function (line 58), the
\* output stage (lines 81-82); what remains is sync_ddp's traversal
CallMetric(p, v) ==
    /\ site.fn \in {"numpy_metric", "tensor_metric", "tensor_collection_metric"}
    /\ pc[p] = "idle"
    /\ ncalls < MaxCalls
    /\ p \in Members(ResolveGroup(site.group))
    /\ ncalls' = ncalls + 1
    /\ LET args == apply_to_collection(Args(site.args), LeafTypes, InputFunction(site.fn))
           kwargs == apply_to_collection(Kwargs(site.args), LeafTypes,
                                         InputFunction(site.fn))
           inputOk == args # TypeError /\ kwargs # TypeError
           result == UserFn(site.f, args, kwargs, v)
           converted == OutputStage(site.fn, result)
           ok == inputOk /\ converted # TypeError
           rec == [status |-> IF ok THEN "running" ELSE "raised",
                   barAtStart |-> barIn[p], upAtStart |-> RuntimeUp(p),
                   invoked |-> inputOk,
                   seenArgs |-> IF inputOk THEN args ELSE NoValue,
                   seenKwargs |-> IF inputOk THEN kwargs ELSE NoValue,
                   fret |-> IF inputOk THEN result ELSE NoValue,
                   ret |-> IF ok THEN NoValue ELSE TypeError]
       IN  /\ call' = [call EXCEPT ![p] = rec]
           /\ cur' = [cur EXCEPT ![p] = IF ok THEN converted ELSE NoValue]
           /\ pc' = [pc EXCEPT ![p] = IF ok THEN "sync" ELSE "idle"]
    /\ outs' = [outs EXCEPT ![p] = <<>>]
    /\ UNCHANGED <<available, rt, site, frame, barIn, contrib, last, firstProbe>>

\* ------------------------------------------------------- specifications
Groups == {"None", "SUB"}
ReduceOps == {"None", "SUM", "avg", "mean"}

InitCommon ==
    /\ available \in BOOLEAN
    /\ rt \in [Peers -> {"uninit", "init"}]
    /\ (~available => \A p \in Peers : rt[p] = "uninit")
    /\ pc = [p \in Peers |-> "idle"]
    /\ ncalls = 0
    /\ cur = [p \in Peers |-> NoValue]
    /\ outs = [p \in Peers |-> <<>>]
    /\ frame = [p \in Peers |-> NoFrame]
    /\ barIn = [p \in Peers |-> 0]
    /\ contrib = {}
    /\ last = [p \in Peers |-> NoLast]
    /\ firstProbe = [p \in Peers |-> "none"]
    /\ call = [p \in Peers |-> NoCall]

Init ==
    /\ InitCommon
    /\ site \in [fn : {"sync_ddp_if_available", "gather_all_tensors_if_available"},
                 group : Groups, reduce_op : ReduceOps, f : {"none"}, args : {"none"}]
    /\ (site.fn = "gather_all_tensors_if_available" => site.reduce_op = "None")

Next ==
    \E p \in Peers :
        \/ InitProcessGroup(p)
        \/ \E v \in Vals : CallSyncDdp(p, v)
        \/ SyncDdpActive(p)
        \/ SyncDdpPassthrough(p)
        \/ Barrier(p)
        \/ AllReduce(p)
        \/ Return(p)
        \/ \E v \in Vals : CallGather(p, v)
        \/ GatherActive(p)
        \/ GatherPassthrough(p)
        \/ GatherBarrier(p)
        \/ AllGather(p)

\* direct calls of the two helpers; the runtime may come up between calls
Spec == Init /\ [][Next]_vars

InitLifecycle ==
    /\ InitCommon
    /\ site \in [fn : {"sync_ddp_if_available", "gather_all_tensors_if_available"},
                 group : Groups, reduce_op : {"None"}, f : {"none"}, args : {"none"}]

NextLifecycle ==
    \E p \in Peers :
        \/ InitProcessGroup(p)
        \/ DestroyProcessGroup(p)
        \/ \E v \in Vals : CallSyncDdp(p, v)
        \/ SyncDdpActive(p)
        \/ SyncDdpPassthrough(p)
        \/ Barrier(p)
        \/ AllReduce(p)
        \/ Return(p)
        \/ \E v \in Vals : CallGather(p, v)
        \/ GatherActive(p)
        \/ GatherPassthrough(p)
        \/ GatherBarrier(p)
        \/ AllGather(p)

\* direct calls while the runtime is brought up and torn down between calls
SpecLifecycle == InitLifecycle /\ [][NextLifecycle]_vars

InitMetric ==
    /\ InitCommon
    /\ site \in [fn : {"numpy_metric", "tensor_metric", "tensor_collection_metric"},
                 group : Groups, reduce_op : {"None"}, f : UserFns,
                 args : ArgChoices]
    \* every input with the function that hands its first argument back, and
    \* every function with the plain input
    /\ (site.f = "ret_first_arg" \/ site.args = "plain")
    \* the process group is set up, if ever, before the first metric is computed
    /\ \A p, q \in Peers : rt[p] = rt[q]

NextMetric ==
    \E p \in Peers :
        \/ \E v \in Vals : CallMetric(p, v)
        \/ SyncDdpActive(p)
        \/ SyncDdpPassthrough(p)
        \/ Barrier(p)
        \/ AllReduce(p)
        \/ Return(p)

\* calls of functions wrapped by the three metric decorators
SpecMetric == InitMetric /\ [][NextMetric]_vars

\* ------------------------------------------------------------ properties
SiteHandle == ResolveGroup(site.group)
SiteRanks == Ranks(SiteHandle)
SiteMembers == Members(SiteHandle)

\* every member of the addressed group has returned from its call of round r
\* and none has started another
AllReturned(r) ==
    \A m \in SiteMembers : last[m].done /\ last[m].active /\ last[m].round = r

RECURSIVE SumLocals(_, _)
SumLocals(ranks, i) ==
    IF i = 0 THEN Zero ELSE RatAdd(SumLocals(ranks, i - 1), last[ranks[i]].local)

GroupSum == SumLocals(SiteRanks, Len(SiteRanks))

\* C1: with op Sum (or none given), once every peer of the group has returned
\* from the matching active reduce call, each peer's result is the sum of the
\* peers' values and all results are identical.
TheoremC1 ==
    (site.fn = "sync_ddp_if_available" /\ site.reduce_op \in {"None", "SUM"}) =>
        \A r \in 1..MaxCalls : AllReturned(r) =>
            \A m \in SiteMembers :
                /\ last[m].ret.kind = "Tensor"
                /\ last[m].ret.val = GroupSum
                /\ \A q \in SiteMembers : last[q].ret.val = last[m].ret.val

WitnessC1 ==
    /\ site.fn = "sync_ddp_if_available"
    /\ site.reduce_op \in {"None", "SUM"}
    /\ site.group = "None"
    /\ AllReturned(2)
    /\ \E m, q \in SiteMembers : last[m].local # last[q].local
    /\ \A m \in SiteMembers : last[m].ret.val = Rat(1, 1)

\* C2: with op 'avg' or 'mean', once every peer of the group has returned from
\* the matching active reduce call, each peer's result is the sum of the peers'
\* values divided by the size of the addressed group, identically on all peers.
TheoremC2 ==
    (site.fn = "sync_ddp_if_available" /\ site.reduce_op \in {"avg", "mean"}) =>
        \A r \in 1..MaxCalls : AllReturned(r) =>
            \A m \in SiteMembers :
                /\ last[m].ret.kind = "Tensor"
                /\ last[m].ret.val = RatDivInt(GroupSum, Cardinality(SiteMembers))
                /\ \A q \in SiteMembers : last[q].ret.val = last[m].ret.val

WitnessC2 ==
    /\ site.fn = "sync_ddp_if_available"
    /\ site.reduce_op = "mean"
    /\ site.group = "SUB"
    /\ Cardinality(SiteMembers) < NumPeers
    /\ AllReturned(1)
    /\ \A m \in SiteMembers : last[m].local = Rat(1, 1)
    /\ \A m \in SiteMembers : last[m].ret.val = Rat(1, 1)

\* C3: once every peer of the group has returned from the matching active
\* gather call, each peer holds a list of exactly group-size tensors whose
\* element at rank i is the value the peer of rank i passed in, the same list
\* on all peers.
TheoremC3 ==
    site.fn = "gather_all_tensors_if_available" =>
        \A r \in 1..MaxCalls : AllReturned(r) =>
            \A m \in SiteMembers :
                /\ last[m].ret.kind = "List"
                /\ Len(last[m].ret.items) = Cardinality(SiteMembers)
                /\ \A i \in 1..Len(last[m].ret.items) :
                      /\ last[m].ret.items[i].kind = "Tensor"
                      /\ last[m].ret.items[i].val = last[SiteRanks[i]].local
                /\ \A q \in SiteMembers : last[q].ret = last[m].ret

WitnessC3 ==
    /\ site.fn = "gather_all_tensors_if_available"
    /\ site.group = "None"
    /\ AllReturned(1)
    /\ last[SiteRanks[1]].local = Rat(1, 1)
    /\ last[SiteRanks[2]].local = Rat(0, 1)
    /\ last[SiteRanks[2]].ret.items[1].val = Rat(1, 1)

InCollective(p) == pc[p] \in {"barrier", "all_reduce", "gather_barrier", "all_gather"}

\* C4: a reduce or gather call made while the runtime is unavailable or not
\* initialized returns the very value it was given, undivided and not wrapped
\* in a list, and enters no barrier or collective and never blocks.
TheoremC4 ==
    \A p \in Peers : (last[p].fn # "none" /\ ~last[p].probe) =>
        /\ ~InCollective(p)
        /\ last[p].done
        /\ last[p].ret = last[p].arg
        /\ last[p].ret.kind = "Tensor"
        /\ last[p].ret.id = CallerOwned
        /\ last[p].ret.val = last[p].local
        /\ barIn[p] = last[p].barAtEntry
        /\ \A c \in contrib : c.peer = p => c.round <= last[p].barAtEntry

WitnessC4 ==
    \E p, q \in Peers :
        /\ last[p].fn = "sync_ddp_if_available" /\ site.reduce_op = "avg"
        /\ ~last[p].probe /\ last[p].done /\ pc[p] = "idle"
        /\ last[p].ret.val = Rat(1, 1)
        /\ p # q /\ pc[q] = "barrier"

\* C8: a peer starts its all-reduce/all-gather, or returns from an active
\* call, only after every peer of the addressed group has entered the matching
\* call; so while some peer has not made the call no peer's call returns.
TheoremC8 ==
    \A p \in Peers :
        (pc[p] \in {"all_reduce", "all_gather"} \/ (last[p].active /\ last[p].done)) =>
            \A m \in SiteMembers : barIn[m] >= last[p].round

WitnessC8 ==
    \E p, q \in SiteMembers :
        /\ p # q
        /\ pc[p] = "all_reduce" /\ last[p].round = 2
        /\ pc[q] = "barrier" /\ last[q].round = 2

ReduceDone(p) ==
    last[p].fn = "sync_ddp_if_available" /\ last[p].active /\ last[p].done

\* C10 as stated: reduce works in place (Sum returns the tensor passed in,
\* Average returns a distinct tensor), and afterwards the caller's tensor no
\* longer holds the peer's local value.
OriginalC10 ==
    \A p \in Peers : ReduceDone(p) =>
        /\ (site.reduce_op \in {"None", "SUM"} => last[p].ret = last[p].arg)
        /\ (site.reduce_op \in {"avg", "mean"} => last[p].ret.id # last[p].arg.id)
        /\ last[p].arg.val # last[p].local

\* C10 amended: Sum returns the very tensor passed in; Average returns a
\* distinct tensor holding the passed tensor's value divided by the group
\* size; in both cases the tensor passed in holds the group sum afterwards
\* (which equals the local value when the other peers' values sum to zero).
TheoremC10 ==
    /\ \A p \in Peers : ReduceDone(p) =>
          /\ last[p].arg.id = CallerOwned
          /\ (site.reduce_op \in {"None", "SUM"} => last[p].ret = last[p].arg)
          /\ (site.reduce_op \in {"avg", "mean"} =>
                /\ last[p].ret.id # last[p].arg.id
                /\ last[p].ret.val =
                      RatDivInt(last[p].arg.val, Cardinality(SiteMembers)))
    /\ site.fn = "sync_ddp_if_available" =>
          \A r \in 1..MaxCalls : AllReturned(r) =>
              \A m \in SiteMembers : last[m].arg.val = GroupSum

WitnessC10 ==
    /\ site.fn = "sync_ddp_if_available"
    /\ site.reduce_op = "avg"
    /\ site.group = "None"
    /\ AllReturned(1)
    /\ \A m \in SiteMembers : last[m].local = Rat(1, 1)
    /\ \A m \in SiteMembers : last[m].arg.val # last[m].local
    /\ \A m \in SiteMembers : last[m].ret.val = Rat(1, 1)

\* C7 as stated: the first probe decides for good, so a call is active
\* exactly when the process's first probe succeeded.
OriginalC7 ==
    \A p \in Peers : last[p].fn # "none" =>
        (last[p].active <=> firstProbe[p] = "Active")

\* C7 amended: the runtime is probed at every call; a call is an identity
\* passthrough that issues no collective exactly when the runtime is not
\* available and initialized at that call, whatever earlier probes found.
TheoremC7 ==
    \A p \in Peers : last[p].fn # "none" =>
        /\ last[p].active <=> last[p].probe
        /\ ~last[p].active =>
              /\ last[p].done
              /\ last[p].ret = last[p].arg
              /\ barIn[p] = last[p].barAtEntry

WitnessC7 ==
    \E p \in Peers :
        /\ firstProbe[p] = "Inactive"
        /\ last[p].active /\ last[p].done
        /\ last[p].ret.kind \in {"Tensor", "List"}


\* ------------------------------------------- properties of the decorators
IsContainer(data) == data.kind \in {"Map", "List", "Tuple", "Set"}

Convertible(data) ==
    data.kind \in {"Scalar", "Tensor"} \/ (data.kind = "Array" /\ ~data.opaque)

\* every number/array/tensor leaf of data is of a kind in allowed
RECURSIVE LeavesIn(_, _)
LeavesIn(data, allowed) ==
    IF data.kind \in LeafTypes THEN data.kind \in allowed
    ELSE IF data.kind = "Map" THEN
        \A i \in 1..Len(data.vals) : LeavesIn(data.vals[i], allowed)
    ELSE IF data.kind \in {"List", "Tuple"} THEN
        \A i \in 1..Len(data.items) : LeavesIn(data.items[i], allowed)
    ELSE IF data.kind = "Set" THEN \A e \in data.elems : LeavesIn(e, allowed)
    ELSE TRUE

\* data is built from containers and convertible leaves only
RECURSIVE AllConvertible(_)
AllConvertible(data) ==
    IF data.kind = "Map" THEN
        \A i \in 1..Len(data.vals) : AllConvertible(data.vals[i])
    ELSE IF data.kind \in {"List", "Tuple"} THEN
        \A i \in 1..Len(data.items) : AllConvertible(data.items[i])
    ELSE IF data.kind = "Set" THEN \A e \in data.elems : AllConvertible(e)
    ELSE Convertible(data)

\* some leaf of data is an array of str/object element dtype
RECURSIVE HasOpaque(_)
HasOpaque(data) ==
    IF data.kind = "Array" THEN data.opaque
    ELSE IF data.kind = "Map" THEN
        \E i \in 1..Len(data.vals) : HasOpaque(data.vals[i])
    ELSE IF data.kind \in {"List", "Tuple"} THEN
        \E i \in 1..Len(data.items) : HasOpaque(data.items[i])
    ELSE IF data.kind = "Set" THEN \E e \in data.elems : HasOpaque(e)
    ELSE FALSE

\* a and b are the same containers around leaves, whatever the leaves are
RECURSIVE SameShape(_, _)
SameShape(a, b) ==
    IF a.kind = "Map" THEN
        /\ b.kind = "Map" /\ b.keys = a.keys /\ Len(b.vals) = Len(a.vals)
        /\ \A i \in 1..Len(a.vals) : SameShape(a.vals[i], b.vals[i])
    ELSE IF a.kind \in {"List", "Tuple"} THEN
        /\ b.kind = a.kind /\ Len(b.items) = Len(a.items)
        /\ \A i \in 1..Len(a.items) : SameShape(a.items[i], b.items[i])
    ELSE IF a.kind = "Set" THEN b.kind = "Set"
    ELSE ~IsContainer(b)

RECURSIVE SumFret(_, _, _)
SumFret(ranks, k, i) ==
    IF i = 0 THEN Zero
    ELSE RatAdd(SumFret(ranks, k, i - 1), call[ranks[i]].fret.vals[k].val)

\* C6: under tensor_collection_metric with op Sum, when the function returns
\* on every peer of an active group a mapping of numbers under the same keys,
\* every peer gets a mapping of those keys whose values are tensors holding
\* the sum over the peers of the key's local value.
TheoremC6 ==
    (site.fn = "tensor_collection_metric" /\ site.f = "ret_dict"
        /\ site.reduce_op \in {"None", "SUM"}) =>
        \A r \in 0..(2 * MaxCalls) :
            (\A m \in SiteMembers :
                /\ call[m].status = "returned"
                /\ call[m].upAtStart
                /\ call[m].barAtStart = r) =>
            \A m \in SiteMembers :
                /\ call[m].ret.kind = "Map"
                /\ call[m].ret.keys = call[m].fret.keys
                /\ Len(call[m].ret.vals) = Len(call[m].fret.vals)
                /\ \A k \in 1..Len(call[m].ret.vals) :
                      /\ call[m].fret.vals[k].kind = "Scalar"
                      /\ call[m].ret.vals[k].kind = "Tensor"
                      /\ call[m].ret.vals[k].val =
                            SumFret(SiteRanks, k, Len(SiteRanks))

WitnessC6 ==
    /\ site.fn = "tensor_collection_metric"
    /\ site.f = "ret_dict"
    /\ site.group = "None"
    /\ \A m \in SiteMembers :
          /\ call[m].status = "returned" /\ call[m].upAtStart
          /\ call[m].barAtStart = 2
          /\ call[m].ret.keys = <<"precision", "recall">>
          /\ call[m].ret.vals[1].val = Rat(1, 1)
    /\ \E m, q \in SiteMembers : call[m].fret.vals[1].val # call[q].fret.vals[1].val

\* the input stage of the call site meets an object array where it converts
\* to tensors
InputFails ==
    /\ site.fn # "numpy_metric"
    /\ HasOpaque(Args(site.args)) \/ HasOpaque(Kwargs(site.args))

\* the output stage meets a value convert_to_tensor rejects
OutputFails(fret) ==
    IF site.fn = "tensor_collection_metric" THEN HasOpaque(fret)
    ELSE ~Convertible(fret)

\* C9: a conversion failure ends the decorated call with TypeError and nothing
\* else: no result, no user function call after an input failure, and no
\* barrier or collective entered by the failing process for that call.
TheoremC9 ==
    \A p \in Peers : call[p].status # "none" =>
        /\ InputFails => (call[p].status = "raised" /\ ~call[p].invoked)
        /\ (call[p].invoked /\ OutputFails(call[p].fret)) => call[p].status = "raised"
        /\ call[p].status = "raised" =>
              /\ InputFails \/ (call[p].invoked /\ OutputFails(call[p].fret))
              /\ call[p].ret = TypeError
              /\ pc[p] = "idle"
              /\ barIn[p] = call[p].barAtStart
              /\ \A c \in contrib : c.peer = p => c.round <= call[p].barAtStart

WitnessC9 ==
    /\ site.fn = "tensor_metric"
    /\ site.args = "object_kwarg"
    /\ \A p \in Peers : rt[p] = "init"
    /\ \E p \in Peers :
          /\ call[p].status = "raised" /\ ~call[p].invoked
          /\ call[p].ret = TypeError /\ barIn[p] = 0

====
